---- MODULE Spec2Model ----
(***************************************************************************)
(* Model of the drift detection service, src/evidently/main.py: the        *)
(* DataStore (reference baseline, production buffer), the FastAPI          *)
(* handlers (capture, capture/batch, analyze, reference, reports,          *)
(* production-data), perform_drift_analysis, the report directory and the  *)
(* Prometheus metrics.                                                     *)
(*                                                                         *)
(* Every handler is an `async def` without an await in its body, so the    *)
(* asyncio event loop runs a handler to its end before it starts the next  *)
(* one.  The handlers that loop or call out (capture_batch, analyze_drift, *)
(* upload_reference_data) are modelled in the steps of their code, each    *)
(* with its own task frame; LoopFree is the event loop's rule that a       *)
(* handler starts only when no other handler is part-way.  Requests that   *)
(* arrive while a handler runs wait in inbox.                              *)
(*                                                                         *)
(* Two other programs of the repository have a part of their own: the     *)
(* predict and reload handlers of the model API, src/api/main.py, and the *)
(* PredictionSimulator of src/simulations/simulator.py.                    *)
(***************************************************************************)
EXTENDS Integers, Sequences, FiniteSets, TLC

\* ------------------------------------------------------------------ bounds

\* Capacity of the production buffer.  The code keeps 10000 records
\* (main.py:192-193); the model keeps the same rule with a small capacity.
Capacity == 2

\* Default of DriftAnalysisRequest.window_size.  The code's default is 100
\* (main.py:119), a hundredth of the capacity; the model keeps it below the
\* capacity, so that a buffer can hold more records than the default window.
DefaultWindowSize == 1

\* Records appended between two clears of the buffer.
MaxAppends == 4

\* Largest batch of POST /capture/batch.
MaxBatch == 3

\* Requests that wait while a handler runs.
MaxInFlight == 1

\* The clock runs from 0 to MaxClock ticks.
MaxClock == 3

\* Ticks of the clock in one second (strftime("%Y%m%d_%H%M%S") drops them).
TicksPerSecond == 2

\* Successful analyses counted by ANALYSIS_COUNT.
MaxAnalyses == 2

\* Predictions and errors counted by the model API.
MaxApiCalls == 4

\* Calls of PredictionSimulator.send_prediction.
MaxSimCalls == 3

\* ------------------------------------------------------------------ values

\* Python's None and pandas' NaN as cell values; real values are >= 0.
NoneVal == -1
NaN == -2

\* Optional[int] of a request field: <<>> is null, <<n>> is n.
Null == <<>>
Some(n) == <<n>>


MetadataCols == {"prediction", "timestamp", "model_version"}

Min(a, b) == IF a < b THEN a ELSE b
Max(a, b) == IF a > b THEN a ELSE b

\* A record (a Python dict) is a function from its keys to values.
Rec1(k, v) == k :> v

\* ------------------------------------------------------------------ pandas

\* list(df.columns) of pd.DataFrame(list of dicts): the union of the keys.
FrameColumns(data) == UNION {DOMAIN data[i] : i \in DOMAIN data}

\* One row of pd.DataFrame(list of dicts): a missing key is NaN.
FrameRow(r, cols) == [k \in cols |-> IF k \in DOMAIN r THEN r[k] ELSE NaN]

\* pd.DataFrame(data) for a list of dicts; len(df) is Len(df.rows).
DataFrame(data) ==
    [columns |-> FrameColumns(data),
     rows    |-> [i \in DOMAIN data |-> FrameRow(data[i], FrameColumns(data))]]

EmptyFrame == [columns |-> {}, rows |-> <<>>]

FrameLen(df) == Len(df.rows)

\* df[cols].copy()
FrameSelect(df, cols) ==
    [columns |-> cols,
     rows    |-> [i \in DOMAIN df.rows |-> [k \in cols |-> df.rows[i][k]]]]

\* ------------------------------------------------------------------ python lists

\* s[start:] of a Python list, start possibly negative.
PySliceFrom(s, start) ==
    LET lo == IF start < 0 THEN Max(Len(s) + start, 0) ELSE Min(start, Len(s))
    IN  SubSeq(s, lo + 1, Len(s))

\* ------------------------------------------------------------------ state

VARIABLES
    production_data,      \* DataStore.production_data: list of dicts
    reference_data,       \* DataStore.reference_data: <<>> (None) or <<DataFrame>>
    reference_metadata,   \* DataStore.reference_metadata: <<>> ({}) or <<dict>>
    last_analysis_time,   \* DataStore.last_analysis_time: <<>> or <<tick>>
    disk_csv,             \* REFERENCE_DIR/reference_data.csv: <<>> or <<file>>
    disk_meta,            \* REFERENCE_DIR/metadata.json: <<>> or <<dict>>
    reports,              \* REPORTS_DIR: file name -> [mtime, content]
    DRIFT_DETECTED,       \* Gauge evidently_data_drift_detected
    DRIFT_SCORE,          \* Gauge evidently_drift_score, a fraction <<num, den>>
    FEATURE_DRIFT,        \* Gauge evidently_feature_drift: label -> 0/1
    DRIFTED_FEATURES_COUNT, \* Gauge evidently_drifted_features_count
    ANALYSIS_COUNT,       \* Counter evidently_analysis_total
    clock,                \* datetime.now(), in ticks
    inbox,                \* requests that arrived while a handler was running
    batch_task,           \* the running capture_batch handler, or Idle
    analyze_task,         \* the running analyze_drift handler, or Idle
    upload_task,          \* the running upload_reference_data handler, or Idle
    response,             \* the response of the handler that finished last
    history,              \* every record appended since the buffer was last empty by construction or clear
    conc,                 \* bookkeeping of the captures that arrived during the latest analysis
    uploaded,             \* the request of the latest upload that succeeded: <<>> or <<request>>
    model_manager,        \* src/api/main.py: the ModelManager, model <<>> (None) or <<model>>
    PREDICTION_ERRORS,    \* src/api/main.py: Counter model_prediction_errors_total, by error_type
    PREDICTION_COUNT,     \* src/api/main.py: Counter model_predictions_total
    api_response,         \* src/api/main.py: the response of the handler that finished last
    simulator,            \* src/simulations/simulator.py: <<>> or <<PredictionSimulator>>
    sim_calls             \* calls of send_prediction made on the simulator

store_vars == <<production_data, reference_data, reference_metadata, last_analysis_time>>
disk_vars == <<disk_csv, disk_meta>>
metric_vars == <<DRIFT_DETECTED, DRIFT_SCORE, FEATURE_DRIFT, DRIFTED_FEATURES_COUNT, ANALYSIS_COUNT>>
task_vars == <<batch_task, analyze_task, upload_task>>
ghost_vars == <<history, conc, uploaded>>
api_vars == <<model_manager, PREDICTION_ERRORS, PREDICTION_COUNT, api_response>>
sim_vars == <<simulator, sim_calls>>
peer_vars == <<api_vars, sim_vars>>
vars == <<store_vars, disk_vars, reports, metric_vars, clock, inbox, task_vars, response,
          ghost_vars, peer_vars>>

Idle == [pc |-> "idle"]
NoResponse == [op |-> "none", status |-> 0]

\* A server that runs each handler in a thread of its own starts a handler
\* at any time.
LoopFreeThreaded == TRUE

\* The event loop starts a handler only when no handler is part-way: the
\* handlers are coroutines that never await.
LoopFree ==
    /\ batch_task.pc = "idle"
    /\ analyze_task.pc = "idle"
    /\ upload_task.pc = "idle"

\* ------------------------------------------------------------------ DataStore

\* The truncation keeps the oldest records instead of the newest.
add_production_data_keeps_oldest(buf, data) ==
    LET appended == Append(buf, data)
    IN  IF Len(appended) > Capacity
        THEN SubSeq(appended, 1, Capacity)
        ELSE appended

\* DataStore.add_production_data: append, then keep the last Capacity.
add_production_data(buf, data) ==
    LET appended == Append(buf, data)
    IN  IF Len(appended) > Capacity
        THEN PySliceFrom(appended, 0 - Capacity)
        ELSE appended

\* The slice is taken from the front: data[:window_size].
get_production_dataframe_head(buf, window_size) ==
    IF buf = <<>>
    THEN EmptyFrame
    ELSE IF window_size # Null /\ window_size[1] # 0
         THEN DataFrame(SubSeq(buf, 1, Min(window_size[1], Len(buf))))
         ELSE DataFrame(buf)

\* DataStore.get_production_dataframe(window_size), window_size an Optional[int].
get_production_dataframe(buf, window_size) ==
    IF buf = <<>>
    THEN EmptyFrame
    ELSE IF window_size # Null /\ window_size[1] # 0
         THEN DataFrame(PySliceFrom(buf, 0 - window_size[1]))
         ELSE DataFrame(buf)

\* ------------------------------------------------------------------ requests

\* PredictionData bodies of POST /capture.
CaptureRequests ==
    { [op |-> "capture", features |-> Rec1("f1", 1), prediction |-> NoneVal,
       timestamp |-> NoneVal, model_version |-> NoneVal],
      [op |-> "capture", features |-> Rec1("f1", 2), prediction |-> 1,
       timestamp |-> 0, model_version |-> NoneVal] }

\* Items of a BatchPredictionData body, arbitrary dicts: the odd items have
\* no timestamp and none of the baseline's features.
BatchItem(i) ==
    IF i % 2 = 1 THEN Rec1("f2", 2) ELSE ("f1" :> 1) @@ ("timestamp" :> 0)

\* BatchPredictionData bodies of POST /capture/batch: one item, and MaxBatch items.
BatchRequests ==
    {[op |-> "batch", data |-> [i \in 1..k |-> BatchItem(i)]] : k \in {1, MaxBatch}}

ClearRequest == [op |-> "clear"]

\* DriftAnalysisRequest bodies of POST /analyze; threshold in tenths.
AnalyzeRequests ==
    {[op |-> "analyze", has_window_size |-> FALSE, window_size |-> Null, threshold |-> 1]}
    \cup {[op |-> "analyze", has_window_size |-> TRUE, window_size |-> w, threshold |-> t] :
             w \in {Null, Some(0), Some(Capacity + 1)}, t \in {1, 5}}

\* ReferenceDataRequest bodies of POST /reference; "" is no description.
ReferenceRequests ==
    { [op |-> "upload", data |-> <<>>, feature_names |-> {"f1"}, description |-> ""],
      [op |-> "upload", data |-> <<Rec1("f1", 1)>>, feature_names |-> {"f1"},
       description |-> "A"],
      [op |-> "upload", data |-> <<Rec1("f1", 2), ("f1" :> 2) @@ ("f2" :> 1)>>,
       feature_names |-> {}, description |-> ""] }

\* A body whose feature_names are not the keys of its records.
DeclaredOtherRequest ==
    [op |-> "upload", data |-> <<Rec1("f1", 1)>>, feature_names |-> {"x1"},
     description |-> "B"]

ReadRequests ==
    {[op |-> "get_reference"], [op |-> "list_reports"]}
    \cup {[op |-> "get_report", report_name |-> n] : n \in 0..(MaxClock \div TicksPerSecond)}

Requests ==
    CaptureRequests \cup BatchRequests \cup {ClearRequest} \cup AnalyzeRequests
    \cup ReferenceRequests \cup ReadRequests

RecordsOf(req) ==
    IF req.op = "capture" THEN 1
    ELSE IF req.op = "batch" THEN Len(req.data)
    ELSE 0

\* ------------------------------------------------------------------ clock

\* datetime.now().isoformat(): the tick stands for its own ISO string.
IsoFormat(t) == t

\* Time passes, also while a handler runs.
Tick ==
    /\ clock < MaxClock
    /\ clock' = clock + 1
    /\ UNCHANGED <<store_vars, disk_vars, reports, metric_vars, inbox, task_vars,
                   response, history, conc, uploaded>>
    /\ UNCHANGED peer_vars

\* ------------------------------------------------------------------ capture

\* The record POST /capture stores: {**features, prediction, timestamp, model_version}.
CaptureDict(req, now) ==
    ("prediction" :> req.prediction)
    @@ ("timestamp" :> (IF req.timestamp = NoneVal THEN IsoFormat(now) ELSE req.timestamp))
    @@ ("model_version" :> req.model_version)
    @@ req.features

\* A record enters the buffer; `during` says that its request arrived while
\* an analysis was running.
StoreRecord(rec, during) ==
    /\ Len(history) < MaxAppends
    /\ production_data' = add_production_data(production_data, rec)
    /\ history' = Append(history, rec)
    /\ conc' = IF during THEN conc ELSE [conc EXCEPT !.ok = FALSE]

\* POST /capture
capture_prediction(req, during) ==
    /\ req.op = "capture"
    /\ LoopFree
    /\ StoreRecord(CaptureDict(req, clock), during)
    /\ response' = [op |-> "capture", status |-> 200,
                    total_samples |-> Len(production_data')]
    /\ UNCHANGED <<reference_data, reference_metadata, last_analysis_time, disk_vars,
                   reports, metric_vars, clock, task_vars, uploaded>>
    /\ UNCHANGED peer_vars

BatchResponse(n, total) ==
    [op |-> "batch", status |-> 200, captured |-> n, total_samples |-> total]

\* POST /capture/batch: the handler starts and stores the first item.
capture_batch(req, during) ==
    /\ req.op = "batch"
    /\ LoopFree
    /\ batch_task.pc = "idle"
    /\ Len(history) + Len(req.data) <= MaxAppends
    /\ StoreRecord(req.data[1], during)
    /\ IF Len(req.data) = 1
       THEN /\ batch_task' = Idle
            /\ response' = BatchResponse(1, Len(production_data'))
       ELSE /\ batch_task' = [pc |-> "loop", data |-> req.data, i |-> 2, during |-> during]
            /\ response' = NoResponse
    /\ UNCHANGED <<reference_data, reference_metadata, last_analysis_time, disk_vars,
                   reports, metric_vars, clock, analyze_task, upload_task, uploaded>>
    /\ UNCHANGED peer_vars

\* The next iteration of `for item in data.data`, and the return after the last.
BatchStep ==
    /\ batch_task.pc = "loop"
    /\ StoreRecord(batch_task.data[batch_task.i], batch_task.during)
    /\ IF batch_task.i = Len(batch_task.data)
       THEN /\ batch_task' = Idle
            /\ response' = BatchResponse(Len(batch_task.data), Len(production_data'))
       ELSE /\ batch_task' = [batch_task EXCEPT !.i = @ + 1]
            /\ response' = NoResponse
    /\ UNCHANGED <<reference_data, reference_metadata, last_analysis_time, disk_vars,
                   reports, metric_vars, clock, inbox, analyze_task, upload_task, uploaded>>
    /\ UNCHANGED peer_vars

\* DELETE /production-data
clear_production_data(req) ==
    /\ req.op = "clear"
    /\ LoopFree
    /\ production_data' = <<>>
    /\ history' = <<>>
    /\ conc' = [conc EXCEPT !.ok = FALSE]
    /\ response' = [op |-> "clear", status |-> 200]
    /\ UNCHANGED <<reference_data, reference_metadata, last_analysis_time, disk_vars,
                   reports, metric_vars, clock, task_vars, uploaded>>
    /\ UNCHANGED peer_vars

\* ------------------------------------------------------------------ analyze

\* A body without window_size is taken as one without a window.
ResolveWindowWholeBuffer(req) ==
    IF req.has_window_size THEN req.window_size ELSE Null

\* DriftAnalysisRequest: a body without window_size gets the field's default.
ResolveWindow(req) ==
    IF req.has_window_size THEN req.window_size ELSE Some(DefaultWindowSize)

Error400(op, kind) == [op |-> op, status |-> 400, kind |-> kind]
Error500(op, kind) == [op |-> op, status |-> 500, kind |-> kind]

\* The handler without its check of the production frame (lines 319-323).
analyze_drift_unchecked(req) ==
    /\ req.op = "analyze"
    /\ LoopFree
    /\ analyze_task.pc = "idle"
    /\ ANALYSIS_COUNT < MaxAnalyses
    /\ IF reference_data = <<>>
       THEN /\ response' = Error400("analyze", "NoReferenceLoaded")
            /\ UNCHANGED <<analyze_task, conc>>
       ELSE /\ analyze_task' =
                   [pc |-> "perform",
                    req |-> req,
                    reference |-> reference_data[1],
                    current |-> get_production_dataframe(production_data, ResolveWindow(req)),
                    base |-> production_data,
                    torn |-> batch_task.pc # "idle",
                    published |-> metric_vars,
                    feature_cols |-> {},
                    verdict |-> <<>>]
            /\ conc' = [start |-> Len(history),
                        ok |-> \A i \in DOMAIN inbox : ~inbox[i].during,
                        arrived |-> 0]
            /\ response' = NoResponse
    /\ UNCHANGED <<store_vars, disk_vars, reports, metric_vars, clock, batch_task,
                   upload_task, history, uploaded>>
    /\ UNCHANGED peer_vars

\* POST /analyze, lines 308-337: the two checks, the snapshot of the buffer
\* and the call of perform_drift_analysis with the baseline of that moment.
analyze_drift(req) ==
    /\ req.op = "analyze"
    /\ LoopFree
    /\ analyze_task.pc = "idle"
    /\ ANALYSIS_COUNT < MaxAnalyses
    /\ LET production_df == get_production_dataframe(production_data, ResolveWindow(req))
       IN  IF reference_data = <<>>
           THEN /\ response' = Error400("analyze", "NoReferenceLoaded")
                /\ UNCHANGED <<analyze_task, conc>>
           ELSE IF FrameLen(production_df) = 0
           THEN /\ response' = Error400("analyze", "NoProductionData")
                /\ UNCHANGED <<analyze_task, conc>>
           ELSE /\ analyze_task' = [pc |-> "perform",
                                    req |-> req,
                                    reference |-> reference_data[1],
                                    current |-> production_df,
                                    base |-> production_data,
                                    torn |-> batch_task.pc # "idle",
                                    published |-> metric_vars,
                                    feature_cols |-> {},
                                    verdict |-> <<>>]
                /\ conc' = [start |-> Len(history),
                            ok |-> \A i \in DOMAIN inbox : ~inbox[i].during,
                            arrived |-> 0]
                /\ response' = NoResponse
    /\ UNCHANGED <<store_vars, disk_vars, reports, metric_vars, clock, batch_task,
                   upload_task, history, uploaded>>
    /\ UNCHANGED peer_vars

\* The metadata columns are not taken out.
FeatureColsWithMetadata(reference, current) ==
    reference.columns \cap current.columns

\* The columns perform_drift_analysis compares (lines 458-462).
FeatureCols(reference, current) ==
    (reference.columns \cap current.columns) \ MetadataCols

\* The values of a column that are present.
ColumnValues(df, f) == {df.rows[i][f] : i \in DOMAIN df.rows} \ {NaN, NoneVal}

\* Stand-in of the library's per-column test (report.run, line 479): a column
\* has drifted when the two samples do not show the same values.
ColumnDrift(ref_df, curr_df, f) == ColumnValues(ref_df, f) # ColumnValues(curr_df, f)

\* The library's rule for the dataset (DatasetDriftMetric with its default
\* drift_share of 0.5): at least half of the columns drifted.
DatasetDrift(n_drifted, n_features) == 2 * n_drifted >= n_features

\* report.run and report.as_dict() (lines 479-482): the result of the metric
\* named DatasetDriftMetric.  The library puts the decision and the share of
\* drifted columns in it; the table of the columns, drift_by_columns, is the
\* result of the library's DataDriftTable, a metric the code does not read.
DatasetDriftMetricResult(ref_df, curr_df) ==
    LET drifted == {f \in ref_df.columns : ColumnDrift(ref_df, curr_df, f)}
    IN  [dataset_drift |-> DatasetDrift(Cardinality(drifted), Cardinality(ref_df.columns)),
         number_of_columns |-> Cardinality(ref_df.columns),
         number_of_drifted_columns |-> Cardinality(drifted),
         share_of_drifted_columns |-> <<Cardinality(drifted), Cardinality(ref_df.columns)>>]

\* d.get(key, default)
DictGet(d, key, default) == IF key \in DOMAIN d THEN d[key] ELSE default

\* The dataset's flag is taken from the caller's threshold (in tenths)
\* instead of the library's decision.
VerdictAppliesThreshold(reference, current, threshold) ==
    LET feature_cols == FeatureCols(reference, current)
        ref_df == FrameSelect(reference, feature_cols)
        curr_df == FrameSelect(current, feature_cols)
        result == DatasetDriftMetricResult(ref_df, curr_df)
        share == result.share_of_drifted_columns
        drift_detected == 10 * share[1] > threshold * share[2]
    IN  [drift_detected |-> drift_detected,
         drift_score |-> IF drift_detected THEN share ELSE <<0, 1>>,
         drifted_features |-> {},
         drift_scores |-> <<>>,
         total_features |-> Cardinality(feature_cols),
         drifted_count |-> 0,
         reference_samples |-> FrameLen(ref_df),
         current_samples |-> FrameLen(curr_df)]

\* perform_drift_analysis, lines 467-505 and 524-537: the summary parsed from
\* the report, report file name apart.  The threshold is a parameter that no
\* line reads.
Verdict(reference, current, threshold) ==
    LET feature_cols == FeatureCols(reference, current)
        ref_df == FrameSelect(reference, feature_cols)
        curr_df == FrameSelect(current, feature_cols)
        result == DatasetDriftMetricResult(ref_df, curr_df)
        drift_detected == DictGet(result, "dataset_drift", FALSE)
        drift_score == DictGet(result, "share_of_drifted_columns", <<0, 1>>)
        drift_by_columns == DictGet(result, "drift_by_columns", <<>>)
        drifted_features ==
            {f \in DOMAIN drift_by_columns :
                DictGet(drift_by_columns[f], "drift_detected", FALSE)}
    IN  [drift_detected |-> drift_detected,
         drift_score |-> IF drift_detected THEN drift_score ELSE <<0, 1>>,
         drifted_features |-> drifted_features,
         drift_scores |-> [f \in DOMAIN drift_by_columns |->
                              DictGet(drift_by_columns[f], "drift_score", 0)],
         total_features |-> Cardinality(feature_cols),
         drifted_count |-> Cardinality(drifted_features),
         reference_samples |-> FrameLen(ref_df),
         current_samples |-> FrameLen(curr_df)]

\* .set(1 if flag else 0) of lines 508 and 511.
FlagGauge(flag) == IF flag THEN 1 ELSE 0

\* perform_drift_analysis, lines 456-513: align, run the report, publish.
AnalyzePerform ==
    /\ analyze_task.pc = "perform"
    /\ LET feature_cols == FeatureCols(analyze_task.reference, analyze_task.current)
           v == Verdict(analyze_task.reference, analyze_task.current,
                        analyze_task.req.threshold)
       IN  IF feature_cols = {}
           THEN /\ response' = Error500("analyze", "NoCommonFeatures")
                /\ analyze_task' = Idle
                /\ UNCHANGED <<DRIFT_DETECTED, DRIFT_SCORE, FEATURE_DRIFT,
                               DRIFTED_FEATURES_COUNT>>
           ELSE /\ FEATURE_DRIFT' =
                       [f \in DOMAIN v.drift_scores |->
                           FlagGauge(f \in v.drifted_features)]
                       @@ FEATURE_DRIFT
                /\ DRIFT_DETECTED' = FlagGauge(v.drift_detected)
                /\ DRIFT_SCORE' = v.drift_score
                /\ DRIFTED_FEATURES_COUNT' = v.drifted_count
                /\ analyze_task' = [analyze_task EXCEPT !.pc = "save",
                                                         !.feature_cols = feature_cols,
                                                         !.verdict = <<v>>]
                /\ UNCHANGED response
    /\ UNCHANGED <<store_vars, disk_vars, reports, ANALYSIS_COUNT, clock, inbox,
                   batch_task, upload_task, history, conc, uploaded>>
    /\ UNCHANGED peer_vars

\* report.run raises (line 479): nothing is published, the handler answers 500.
AnalyzePerformFail ==
    /\ analyze_task.pc = "perform"
    /\ FeatureCols(analyze_task.reference, analyze_task.current) # {}
    /\ response' = Error500("analyze", "AnalysisError")
    /\ analyze_task' = Idle
    /\ UNCHANGED <<store_vars, disk_vars, reports, metric_vars, clock, inbox,
                   batch_task, upload_task, history, conc, uploaded>>
    /\ UNCHANGED peer_vars

\* datetime.now().strftime("%Y%m%d_%H%M%S"): the second of the tick.
StrfTimeSeconds(t) == t \div TicksPerSecond

\* f"drift_report_{timestamp}.html", named by its second.
ReportFilename(t) == StrfTimeSeconds(t)

\* Lines 515-537 and 339-348: write the report, count the analysis, answer.
AnalyzeSave ==
    /\ analyze_task.pc = "save"
    /\ LET report_filename == ReportFilename(clock)
           v == analyze_task.verdict[1]
       IN  /\ reports' = (report_filename :> [mtime |-> clock, content |-> <<v>>]) @@ reports
           /\ response' = [op |-> "analyze", status |-> 200, verdict |-> v,
                           report_filename |-> report_filename]
    /\ ANALYSIS_COUNT' = ANALYSIS_COUNT + 1
    /\ last_analysis_time' = <<clock>>
    /\ analyze_task' = Idle
    /\ UNCHANGED <<production_data, reference_data, reference_metadata, disk_vars,
                   DRIFT_DETECTED, DRIFT_SCORE, FEATURE_DRIFT, DRIFTED_FEATURES_COUNT,
                   clock, inbox, batch_task, upload_task, history, conc, uploaded>>
    /\ UNCHANGED peer_vars

\* The analysis whose report was not written is counted.
AnalyzeSaveFailCounted ==
    /\ analyze_task.pc = "save"
    /\ response' = Error500("analyze", "PersistenceError")
    /\ ANALYSIS_COUNT' = ANALYSIS_COUNT + 1
    /\ analyze_task' = Idle
    /\ UNCHANGED <<store_vars, disk_vars, reports, DRIFT_DETECTED, DRIFT_SCORE,
                   FEATURE_DRIFT, DRIFTED_FEATURES_COUNT, clock, inbox,
                   batch_task, upload_task, history, conc, uploaded>>
    /\ UNCHANGED peer_vars

\* report.save_html raises (line 519): the handler answers 500.
AnalyzeSaveFail ==
    /\ analyze_task.pc = "save"
    /\ response' = Error500("analyze", "PersistenceError")
    /\ analyze_task' = Idle
    /\ UNCHANGED <<store_vars, disk_vars, reports, metric_vars, clock, inbox,
                   batch_task, upload_task, history, conc, uploaded>>
    /\ UNCHANGED peer_vars

\* ------------------------------------------------------------------ reference

\* data.to_csv(reference_file, index=False): None and NaN are both written
\* as an empty cell, which read_csv gives back as NaN.
CsvFile(df) ==
    [header |-> df.columns,
     lines  |-> [i \in DOMAIN df.rows |->
                    [k \in df.columns |->
                        IF df.rows[i][k] = NoneVal THEN NaN ELSE df.rows[i][k]]]]

\* What a write that failed part-way leaves: a truncated file.
TruncatedFile == [header |-> {}, lines |-> <<>>]

\* open(metadata_file, 'w') empties the file before json.dump writes: what a
\* failed dump leaves is text json.load cannot parse.
TruncatedJson == [unparsable |-> TRUE]

\* The metadata dict of lines 384-389.
Metadata(req, df, now) ==
    [description |-> IF req.description # "" THEN req.description ELSE "Reference dataset",
     uploaded_at |-> IsoFormat(now),
     samples |-> FrameLen(df),
     features |-> IF req.feature_names # {} THEN req.feature_names ELSE df.columns]

\* The handler without its check of the frame's length (lines 380-381).
upload_reference_data_unchecked(req) ==
    /\ req.op = "upload"
    /\ LoopFree
    /\ upload_task.pc = "idle"
    /\ upload_task' = [pc |-> "to_csv", req |-> req, df |-> DataFrame(req.data),
                       metadata |-> Metadata(req, DataFrame(req.data), clock),
                       old_data |-> reference_data,
                       old_metadata |-> reference_metadata]
    /\ response' = NoResponse
    /\ UNCHANGED <<store_vars, disk_vars, reports, metric_vars, clock, batch_task,
                   analyze_task, history, conc, uploaded>>
    /\ UNCHANGED peer_vars

\* POST /reference, lines 375-389: build the frame, validate, build the metadata.
upload_reference_data(req) ==
    /\ req.op = "upload"
    /\ LoopFree
    /\ upload_task.pc = "idle"
    /\ LET df == DataFrame(req.data)
       IN  IF FrameLen(df) = 0
           THEN /\ response' = Error400("upload", "EmptyDataset")
                /\ UNCHANGED upload_task
           ELSE /\ upload_task' = [pc |-> "to_csv", req |-> req, df |-> df,
                                   metadata |-> Metadata(req, df, clock),
                                   old_data |-> reference_data,
                                   old_metadata |-> reference_metadata]
                /\ response' = NoResponse
    /\ UNCHANGED <<store_vars, disk_vars, reports, metric_vars, clock, batch_task,
                   analyze_task, history, conc, uploaded>>
    /\ UNCHANGED peer_vars

\* save_reference_data, line 173.
UploadToCsv ==
    /\ upload_task.pc = "to_csv"
    /\ disk_csv' = <<CsvFile(upload_task.df)>>
    /\ upload_task' = [upload_task EXCEPT !.pc = "json_dump"]
    /\ UNCHANGED <<store_vars, disk_meta, reports, metric_vars, clock, inbox,
                   batch_task, analyze_task, response, history, conc, uploaded>>
    /\ UNCHANGED peer_vars

\* Line 173 raises: the file is untouched or truncated; lines 183-185, 402-404.
UploadToCsvFail ==
    /\ upload_task.pc = "to_csv"
    /\ disk_csv' \in {disk_csv, <<TruncatedFile>>}
    /\ upload_task' = Idle
    /\ response' = Error500("upload", "PersistenceError")
    /\ UNCHANGED <<store_vars, disk_meta, reports, metric_vars, clock, inbox,
                   batch_task, analyze_task, history, conc, uploaded>>
    /\ UNCHANGED peer_vars

\* The metadata file is not written at all.
UploadJsonDumpSkipped ==
    /\ upload_task.pc = "json_dump"
    /\ upload_task' = [upload_task EXCEPT !.pc = "assign_data"]
    /\ UNCHANGED <<store_vars, disk_vars, reports, metric_vars, clock, inbox,
                   batch_task, analyze_task, response, history, conc, uploaded>>
    /\ UNCHANGED peer_vars

\* save_reference_data, lines 175-178.
UploadJsonDump ==
    /\ upload_task.pc = "json_dump"
    /\ disk_meta' = <<upload_task.metadata>>
    /\ upload_task' = [upload_task EXCEPT !.pc = "assign_data"]
    /\ UNCHANGED <<store_vars, disk_csv, reports, metric_vars, clock, inbox,
                   batch_task, analyze_task, response, history, conc, uploaded>>
    /\ UNCHANGED peer_vars

\* Lines 177-178 raise: the file is untouched (open failed) or truncated;
\* lines 183-185, 402-404.
UploadJsonDumpFail ==
    /\ upload_task.pc = "json_dump"
    /\ disk_meta' \in {disk_meta, <<TruncatedJson>>}
    /\ upload_task' = Idle
    /\ response' = Error500("upload", "PersistenceError")
    /\ UNCHANGED <<store_vars, disk_csv, reports, metric_vars, clock, inbox,
                   batch_task, analyze_task, history, conc, uploaded>>
    /\ UNCHANGED peer_vars

\* The new records are added to the baseline in place instead of replacing it.
UploadAssignDataMerges ==
    /\ upload_task.pc = "assign_data"
    /\ reference_data' =
          IF reference_data = <<>>
          THEN <<upload_task.df>>
          ELSE <<[columns |-> reference_data[1].columns \cup upload_task.df.columns,
                  rows |-> reference_data[1].rows \o upload_task.df.rows]>>
    /\ upload_task' = [upload_task EXCEPT !.pc = "assign_metadata"]
    /\ UNCHANGED <<production_data, reference_metadata, last_analysis_time, disk_vars,
                   reports, metric_vars, clock, inbox, batch_task, analyze_task,
                   response, history, conc, uploaded>>
    /\ UNCHANGED peer_vars

\* save_reference_data, line 180.
UploadAssignData ==
    /\ upload_task.pc = "assign_data"
    /\ reference_data' = <<upload_task.df>>
    /\ upload_task' = [upload_task EXCEPT !.pc = "assign_metadata"]
    /\ UNCHANGED <<production_data, reference_metadata, last_analysis_time, disk_vars,
                   reports, metric_vars, clock, inbox, batch_task, analyze_task,
                   response, history, conc, uploaded>>
    /\ UNCHANGED peer_vars

\* save_reference_data, line 181, and the answer of lines 393-398.
UploadAssignMetadata ==
    /\ upload_task.pc = "assign_metadata"
    /\ reference_metadata' = <<upload_task.metadata>>
    /\ response' = [op |-> "upload", status |-> 200,
                    samples |-> FrameLen(upload_task.df),
                    features |-> upload_task.df.columns]
    /\ upload_task' = Idle
    /\ uploaded' = <<upload_task.req>>
    /\ UNCHANGED <<production_data, reference_data, last_analysis_time, disk_vars,
                   reports, metric_vars, clock, inbox, batch_task, analyze_task,
                   history, conc>>
    /\ UNCHANGED peer_vars

\* The body GET /reference answers for a baseline and its metadata.
ReferenceInfo(data, metadata) ==
    IF data = <<>>
    THEN [op |-> "get_reference", status |-> 200, loaded |-> FALSE]
    ELSE [op |-> "get_reference", status |-> 200, loaded |-> TRUE,
          samples |-> FrameLen(data[1]),
          features |-> data[1].columns,
          metadata |-> metadata]

\* GET /reference
get_reference_info(req) ==
    /\ req.op = "get_reference"
    /\ LoopFree
    /\ response' = ReferenceInfo(reference_data, reference_metadata)
    /\ UNCHANGED <<store_vars, disk_vars, reports, metric_vars, clock, task_vars,
                   history, conc, uploaded>>
    /\ UNCHANGED peer_vars

\* ------------------------------------------------------------------ reports

\* sorted(REPORTS_DIR.glob("*.html"), key=st_mtime, reverse=True)
RECURSIVE SortedNewestFirst(_, _)
SortedNewestFirst(files, names) ==
    IF names = {}
    THEN <<>>
    ELSE LET newest == CHOOSE n \in names : \A m \in names : files[m].mtime <= files[n].mtime
         IN  <<newest>> \o SortedNewestFirst(files, names \ {newest})

\* GET /reports
list_reports(req) ==
    /\ req.op = "list_reports"
    /\ LoopFree
    /\ LET sorted == SortedNewestFirst(reports, DOMAIN reports)
       IN  response' = [op |-> "list_reports", status |-> 200, count |-> Len(sorted),
                        reports |-> [i \in DOMAIN sorted |->
                                        [filename |-> sorted[i],
                                         created |-> reports[sorted[i]].mtime]]]
    /\ UNCHANGED <<store_vars, disk_vars, reports, metric_vars, clock, task_vars,
                   history, conc, uploaded>>
    /\ UNCHANGED peer_vars

\* GET /reports/{report_name}
get_report(req) ==
    /\ req.op = "get_report"
    /\ LoopFree
    /\ response' =
          IF req.report_name \notin DOMAIN reports
          THEN [op |-> "get_report", status |-> 404, report_name |-> req.report_name]
          ELSE [op |-> "get_report", status |-> 200, report_name |-> req.report_name,
                text |-> reports[req.report_name].content]
    /\ UNCHANGED <<store_vars, disk_vars, reports, metric_vars, clock, task_vars,
                   history, conc, uploaded>>
    /\ UNCHANGED peer_vars

\* ------------------------------------------------------------------ initial state

\* pd.read_csv(reference_file)
ReadCsv(file) == [columns |-> file.header, rows |-> file.lines]

\* DataStore._load_reference_data, lines 157-167: <<reference_data, reference_metadata>>.
\* read_csv raises on a file without columns; the except clause logs it.
\* json.load raises after line 159 has assigned reference_data: the records
\* stay, the metadata stays {}.
LoadReference(csv, meta) ==
    IF csv = <<>> \/ csv[1].header = {}
    THEN <<<<>>, <<>>>>
    ELSE IF meta # <<>> /\ meta[1] = TruncatedJson
    THEN <<<<ReadCsv(csv[1])>>, <<>>>>
    ELSE <<<<ReadCsv(csv[1])>>, meta>>

\* ------------------------------------------------------------------ model API

\* The error_type labels of PREDICTION_ERRORS in src/api/main.py.
ErrorTypes == {"model_not_loaded", "value_error", "unknown_error", "model_load_error"}

\* ModelManager.__init__: no model yet.
ModelManager == [model |-> <<>>]

\* The classes an exception is an instance of; fastapi's HTTPException
\* derives from Exception, as ValueError and every other error do.
ExceptionBases(type) == {type, "Exception"}

\* isinstance(exc, class), the test of an except clause.
IsInstance(exc, class) == class \in ExceptionBases(exc.type)

HTTPException(status_code, detail) ==
    [type |-> "HTTPException", status_code |-> status_code, detail |-> detail]

\* PREDICTION_ERRORS.labels(error_type=...).inc()
Inc(counter, error_type) == [counter EXCEPT ![error_type] = @ + 1]

ApiCalls ==
    PREDICTION_COUNT
    + PREDICTION_ERRORS["model_not_loaded"] + PREDICTION_ERRORS["value_error"]
    + PREDICTION_ERRORS["unknown_error"] + PREDICTION_ERRORS["model_load_error"]

\* What mlflow does to a call of load_model: the model is loaded and its
\* versions are listed, or load_model raises, or get_latest_versions raises.
LoadOutcomes == {"loaded", "load_raises", "versions_raises"}

\* ModelManager.load_model under reload_model (and startup_event): self.model
\* is assigned before the versions are asked for.
reload_model ==
    \E outcome \in LoadOutcomes :
        /\ ApiCalls < MaxApiCalls
        /\ model_manager' = IF outcome = "load_raises"
                            THEN model_manager
                            ELSE [model_manager EXCEPT !.model = <<"model">>]
        /\ PREDICTION_ERRORS' = IF outcome = "loaded"
                                THEN PREDICTION_ERRORS
                                ELSE Inc(PREDICTION_ERRORS, "model_load_error")
        /\ api_response' = IF outcome = "loaded"
                           THEN [op |-> "reload", status |-> 200, detail |-> "success"]
                           ELSE [op |-> "reload", status |-> 500,
                                 detail |-> "Model reload failed"]
        /\ UNCHANGED <<PREDICTION_COUNT, sim_vars>>
        /\ UNCHANGED <<store_vars, disk_vars, reports, metric_vars, clock, inbox,
                       task_vars, response, ghost_vars>>

\* What the model does to a call of ModelManager.predict: it answers, it
\* raises a ValueError or another error before the prediction is counted, or
\* float(pred[0]) raises a TypeError after it was counted.
PredictOutcomes == {"ok", "ValueError", "MlflowException", "TypeError"}

\* The try block of predict, lines 332-353: the errors it counts, whether
\* the prediction is counted, and the exception it raises (<<>>: none).
PredictTry(mm, outcome) ==
    IF mm.model = <<>>
    THEN [errors |-> {"model_not_loaded"}, counted |-> 0,
          raised |-> <<HTTPException(503, "Model not loaded")>>]
    ELSE IF outcome = "ok"
         THEN [errors |-> {}, counted |-> 1, raised |-> <<>>]
         ELSE [errors |-> {},
               counted |-> IF outcome = "TypeError" THEN 1 ELSE 0,
               raised |-> <<[type |-> outcome, status_code |-> 0, detail |-> outcome]>>]

\* POST /predict, lines 330-369: the try block, then the first except clause
\* that the raised exception is an instance of.
predict ==
    \E outcome \in PredictOutcomes :
        LET try == PredictTry(model_manager, outcome)
            counted == IF try.errors = {}
                       THEN PREDICTION_ERRORS
                       ELSE Inc(PREDICTION_ERRORS, "model_not_loaded")
        IN  /\ ApiCalls < MaxApiCalls
            /\ PREDICTION_COUNT' = PREDICTION_COUNT + try.counted
            /\ IF try.raised = <<>>
               THEN /\ PREDICTION_ERRORS' = counted
                    /\ api_response' = [op |-> "predict", status |-> 200,
                                        detail |-> "prediction"]
               ELSE IF IsInstance(try.raised[1], "ValueError")
               THEN /\ PREDICTION_ERRORS' = Inc(counted, "value_error")
                    /\ api_response' = [op |-> "predict", status |-> 400,
                                        detail |-> try.raised[1].detail]
               ELSE IF IsInstance(try.raised[1], "Exception")
               THEN /\ PREDICTION_ERRORS' = Inc(counted, "unknown_error")
                    /\ api_response' = [op |-> "predict", status |-> 500,
                                        detail |-> "Prediction failed"]
               ELSE /\ PREDICTION_ERRORS' = counted
                    /\ api_response' = [op |-> "predict",
                                        status |-> try.raised[1].status_code,
                                        detail |-> try.raised[1].detail]
            /\ UNCHANGED <<model_manager, sim_vars>>
            /\ UNCHANGED <<store_vars, disk_vars, reports, metric_vars, clock, inbox,
                           task_vars, response, ghost_vars>>

\* ------------------------------------------------------------------ simulator

\* PredictionSimulator.__init__, lines 17-31; capture is whether the
\* configuration has a non-empty evidently_capture_url.
NewSimulator(capture) ==
    [api |-> [evidently_capture_url |-> capture],
     stats |-> [total |-> 0, success |-> 0, failed |-> 0, latency |-> <<>>,
                predictions |-> <<>>, errors |-> <<>>]]

PredictionSimulator ==
    /\ simulator = <<>>
    /\ \E capture \in BOOLEAN : simulator' = <<NewSimulator(capture)>>
    /\ UNCHANGED <<sim_calls, api_vars>>
    /\ UNCHANGED <<store_vars, disk_vars, reports, metric_vars, clock, inbox,
                   task_vars, response, ghost_vars>>

\* What requests.post does for the prediction: it raises (timeout, refused
\* connection), or answers 200 with a JSON body, 200 with a body that r.json()
\* cannot parse, or another status.
PostOutcomes == {"raises", "200", "200_bad_json", "non_200"}

\* What the capture request does: accepted, status >= 300, or it raises.
CaptureOutcomes == {"ok", "rejected", "raises"}

\* _capture_to_evidently, lines 80-99: every failure ends in stats["errors"].
CaptureToEvidently(stats, cap) ==
    IF cap = "ok"
    THEN stats
    ELSE [stats EXCEPT !.errors =
             Append(@, IF cap = "rejected" THEN "capture_failed" ELSE "capture_exception")]

\* send_prediction, lines 40-78, on the stats.
SendPrediction(stats, api, post, cap) ==
    IF post = "raises"
    THEN [stats EXCEPT !.failed = @ + 1, !.errors = Append(@, "str(e)")]
    ELSE LET answered == [stats EXCEPT !.total = @ + 1, !.latency = Append(@, 1)]
         IN  IF post = "200"
             THEN LET counted == [answered EXCEPT !.success = @ + 1,
                                                  !.predictions = Append(@, 1)]
                  IN  IF api.evidently_capture_url
                      THEN CaptureToEvidently(counted, cap)
                      ELSE counted
             ELSE [answered EXCEPT !.failed = @ + 1,
                                   !.errors = Append(@, IF post = "non_200"
                                                        THEN "r.text" ELSE "str(e)")]

send_prediction ==
    /\ simulator # <<>>
    /\ sim_calls < MaxSimCalls
    /\ \E post \in PostOutcomes, cap \in CaptureOutcomes :
          simulator' = <<[simulator[1] EXCEPT
                            !.stats = SendPrediction(@, simulator[1].api, post, cap)]>>
    /\ sim_calls' = sim_calls + 1
    /\ UNCHANGED api_vars
    /\ UNCHANGED <<store_vars, disk_vars, reports, metric_vars, clock, inbox,
                   task_vars, response, ghost_vars>>

\* summary, line 124: the success rate it logs, as a fraction.
SuccessRate(stats) == <<stats.success, stats.total>>

\* ------------------------------------------------------------------ start

\* The baseline an earlier run of the service left in REFERENCE_DIR.
EarlierRecord == ("f1" :> 1) @@ ("f3" :> 1) @@ ("f4" :> 1) @@ ("prediction" :> 1)

EarlierUpload ==
    [op |-> "upload", data |-> <<EarlierRecord, EarlierRecord>>,
     feature_names |-> {"f1", "f3", "f4"}, description |-> "earlier"]

\* REFERENCE_DIR when the process starts: empty, or the files of an earlier upload.
StartDisks ==
    { <<<<>>, <<>>>>,
      << <<CsvFile(DataFrame(EarlierUpload.data))>>,
         <<Metadata(EarlierUpload, DataFrame(EarlierUpload.data), 0)>> >> }

\* DataStore.__init__ (lines 143-150) and the module's globals.
Init ==
    /\ \E d \in StartDisks :
          /\ disk_csv = d[1]
          /\ disk_meta = d[2]
          /\ reference_data = LoadReference(d[1], d[2])[1]
          /\ reference_metadata = LoadReference(d[1], d[2])[2]
    /\ production_data = <<>>
    /\ last_analysis_time = <<>>
    /\ reports = <<>>
    /\ DRIFT_DETECTED = 0
    /\ DRIFT_SCORE = <<0, 1>>
    /\ FEATURE_DRIFT = <<>>
    /\ DRIFTED_FEATURES_COUNT = 0
    /\ ANALYSIS_COUNT = 0
    /\ clock = 0
    /\ inbox = <<>>
    /\ batch_task = Idle
    /\ analyze_task = Idle
    /\ upload_task = Idle
    /\ response = NoResponse
    /\ history = <<>>
    /\ conc = [start |-> 0, ok |-> FALSE, arrived |-> 0]
    /\ uploaded = <<>>
    /\ model_manager = ModelManager
    /\ PREDICTION_ERRORS = [t \in ErrorTypes |-> 0]
    /\ PREDICTION_COUNT = 0
    /\ api_response = NoResponse
    /\ simulator = <<>>
    /\ sim_calls = 0

\* The process is stopped between two requests and started again: the module
\* is loaded anew, data_store = DataStore() reads REFERENCE_DIR, the metrics
\* start from zero; the files stay.  The response remembers what was answered
\* last before the restart.
Restart ==
    /\ LoopFree
    /\ reference_data' = LoadReference(disk_csv, disk_meta)[1]
    /\ reference_metadata' = LoadReference(disk_csv, disk_meta)[2]
    /\ production_data' = <<>>
    /\ last_analysis_time' = <<>>
    /\ DRIFT_DETECTED' = 0
    /\ DRIFT_SCORE' = <<0, 1>>
    /\ FEATURE_DRIFT' = <<>>
    /\ DRIFTED_FEATURES_COUNT' = 0
    /\ ANALYSIS_COUNT' = 0
    /\ inbox' = <<>>
    /\ response' = [op |-> "restart", status |-> 0,
                    after |-> response.op, after_status |-> response.status,
                    held |-> Len(production_data)]
    /\ history' = <<>>
    /\ conc' = [start |-> 0, ok |-> FALSE, arrived |-> 0]
    /\ uploaded' = <<>>
    /\ UNCHANGED <<disk_vars, reports, clock, task_vars>>
    /\ UNCHANGED peer_vars

\* ------------------------------------------------------------------ event loop

\* The handler of a request.
Handle(req, during) ==
    \/ capture_prediction(req, during)
    \/ capture_batch(req, during)
    \/ clear_production_data(req)
    \/ analyze_drift(req)
    \/ upload_reference_data(req)
    \/ get_reference_info(req)
    \/ list_reports(req)
    \/ get_report(req)

\* A request arrives while a handler runs and waits for the loop.
Arrive(req) ==
    /\ ~LoopFree
    /\ Len(inbox) < MaxInFlight
    /\ inbox' = Append(inbox, [req |-> req, during |-> analyze_task.pc # "idle"])
    /\ conc' = IF analyze_task.pc # "idle"
               THEN [conc EXCEPT !.arrived = @ + RecordsOf(req)]
               ELSE conc
    /\ UNCHANGED <<store_vars, disk_vars, reports, metric_vars, clock, task_vars,
                   response, history, uploaded>>
    /\ UNCHANGED peer_vars

RemoveAt(s, i) == SubSeq(s, 1, i - 1) \o SubSeq(s, i + 1, Len(s))

\* A request of the pool arrives at a free loop and is served at once.
ServeDirect(pool) ==
    \E req \in pool :
        /\ Handle(req, FALSE)
        /\ UNCHANGED inbox

\* A request of the pool arrives while a handler runs.
ArriveAny(pool) == \E req \in pool : Arrive(req)

\* The free loop serves a waiting request.
ServeWaiting ==
    \E i \in DOMAIN inbox :
        /\ Handle(inbox[i].req, inbox[i].during)
        /\ inbox' = RemoveAt(inbox, i)

BatchSteps == BatchStep
AnalyzeSteps == AnalyzePerform \/ AnalyzePerformFail \/ AnalyzeSave \/ AnalyzeSaveFail
UploadSteps ==
    \/ UploadToCsv
    \/ UploadToCsvFail
    \/ UploadJsonDump
    \/ UploadJsonDumpFail
    \/ UploadAssignData
    \/ UploadAssignMetadata

\* The whole service.
Next ==
    \/ ServeDirect(Requests)
    \/ ServeWaiting
    \/ ArriveAny(Requests)
    \/ BatchSteps
    \/ AnalyzeSteps
    \/ UploadSteps
    \/ Restart
    \/ Tick
    \/ reload_model
    \/ predict
    \/ PredictionSimulator
    \/ send_prediction

Spec == Init /\ [][Next]_vars

\* The model-serving API of src/api/main.py.
NextApi ==
    \/ reload_model
    \/ predict

SpecApi == Init /\ [][NextApi]_vars

\* The traffic simulator of src/simulations/simulator.py.
NextSimulator ==
    \/ PredictionSimulator
    \/ send_prediction

SpecSimulator == Init /\ [][NextSimulator]_vars

\* Capture and analysis: the buffer, its window, captures that arrive while
\* an analysis runs.
CaptureRequestPool ==
    {r \in CaptureRequests : r.timestamp = NoneVal} \cup BatchRequests \cup {ClearRequest}
    \cup {r \in AnalyzeRequests : r.threshold = 1 /\ r.window_size # Null}
    \cup {r \in AnalyzeRequests : ~r.has_window_size}

\* The captures that arrive while a handler runs.
WaitingPool ==
    {r \in CaptureRequests : r.timestamp = NoneVal}
    \cup {r \in BatchRequests : Len(r.data) = MaxBatch}

NextCapture ==
    \/ ServeDirect(CaptureRequestPool)
    \/ ServeWaiting
    \/ ArriveAny(WaitingPool)
    \/ BatchSteps
    \/ AnalyzeSteps

SpecCapture == Init /\ [][NextCapture]_vars

\* The baseline: uploads, GET /reference, and an analysis that reads it.
ReferenceRequestPool ==
    ReferenceRequests \cup {[op |-> "get_reference"]}
    \cup {r \in CaptureRequests : r.timestamp = NoneVal}
    \cup {r \in AnalyzeRequests : ~r.has_window_size}

NextReference ==
    \/ ServeDirect(ReferenceRequestPool)
    \/ ServeWaiting
    \/ ArriveAny({r \in ReferenceRequests : r.description = "A"} \cup {[op |-> "get_reference"]})
    \/ UploadSteps
    \/ AnalyzeSteps

SpecReference == Init /\ [][NextReference]_vars

\* The report archive: analyses at the ticks of the clock, listing, retrieval.
ReportRequestPool ==
    {r \in ReadRequests : r.op # "get_reference"}
    \cup {r \in CaptureRequests : r.timestamp # NoneVal}
    \cup {ClearRequest}
    \cup {r \in AnalyzeRequests : r.threshold = 1 /\ r.window_size # Null}

NextReports ==
    \/ ServeDirect(ReportRequestPool)
    \/ AnalyzeSteps
    \/ Tick

SpecReports == Init /\ [][NextReports]_vars

\* PredictionData bodies with the three features of the baseline, at the
\* baseline's values and with one feature off, and one with two of them, one
\* feature off.
VerdictCaptures ==
    { [op |-> "capture", features |-> ("f1" :> 1) @@ ("f3" :> 1) @@ ("f4" :> v),
       prediction |-> 1, timestamp |-> 0, model_version |-> NoneVal] : v \in {1, 2} }
    \cup { [op |-> "capture", features |-> ("f1" :> 1) @@ ("f3" :> 2),
            prediction |-> 1, timestamp |-> 0, model_version |-> NoneVal] }

\* A batch whose record has none of the baseline's columns.
ForeignBatch == [op |-> "batch", data |-> <<Rec1("g1", 1)>>]

\* The verdict: analyses of windows with three, two and no column in common
\* with the baseline, under both thresholds.
VerdictRequestPool ==
    VerdictCaptures
    \cup {ForeignBatch}
    \cup {r \in AnalyzeRequests : r.window_size = Null}

NextVerdict ==
    \/ ServeDirect(VerdictRequestPool)
    \/ AnalyzeSteps

SpecVerdict == Init /\ [][NextVerdict]_vars

\* Uploads, their failures, and restarts of the process.
RestartRequestPool ==
    ReferenceRequests \cup {DeclaredOtherRequest} \cup {[op |-> "get_reference"]}
    \cup {r \in CaptureRequests : r.timestamp # NoneVal}
    \cup {ClearRequest}
    \cup {r \in AnalyzeRequests : ~r.has_window_size}

NextRestart ==
    \/ ServeDirect(RestartRequestPool)
    \/ UploadSteps
    \/ AnalyzeSteps
    \/ Restart

SpecRestart == Init /\ [][NextRestart]_vars

\* ------------------------------------------------------------------ claims

\* The last k elements of s, oldest first.
LastN(s, k) == [i \in 1..k |-> s[Len(s) - k + i]]

\* How often r occurs in s.
Count(s, r) == Cardinality({i \in DOMAIN s : s[i] = r})

\* C1: after k appends to an empty buffer (no clear in between) the buffer
\* holds exactly the last min(k, Capacity) of them in insertion order, and
\* its length never exceeds Capacity.
C1_BufferKeepsLast ==
    /\ Len(production_data) <= Capacity
    /\ production_data = LastN(history, Min(Len(history), Capacity))

\* C1 witness: one record more than the capacity was appended and the
\* oldest, different from its successor, is gone.
C1_Witness ==
    /\ Len(history) = Capacity + 1
    /\ history[1] # history[2]
    /\ production_data[1] = history[2]

\* The rows a window of n must hold for the buffer buf.
WindowSize(buf, n) ==
    IF n # Null /\ n[1] >= 1 THEN Min(n[1], Len(buf)) ELSE Len(buf)

\* C2: the snapshot an analysis holds is made of the min(n, m) most recent
\* records of the buffer as it was at the call, oldest first (all m when n is
\* absent or 0), and stays so while the analysis runs.
C2_WindowIsMostRecent ==
    analyze_task.pc # "idle" =>
        LET n == ResolveWindow(analyze_task.req)
            k == WindowSize(analyze_task.base, n)
            recent == LastN(analyze_task.base, k)
            rows == analyze_task.current.rows
        IN  /\ Len(rows) = k
            /\ \A i \in 1..k : \A key \in DOMAIN recent[i] :
                   key \in DOMAIN rows[i] /\ rows[i][key] = recent[i][key]
            /\ \A i \in 1..k : \A key \in DOMAIN rows[i] :
                   key \notin DOMAIN recent[i] => rows[i][key] = NaN

\* C2 witness: a window shorter than the buffer, whose records differ.
C2_Witness ==
    /\ analyze_task.pc # "idle"
    /\ ResolveWindow(analyze_task.req) = Some(DefaultWindowSize)
    /\ Len(analyze_task.base) = DefaultWindowSize + 1
    /\ analyze_task.base[1] # analyze_task.base[2]

\* The captures that arrived during the latest analysis are all served and
\* nothing else has touched the buffer since that analysis took its snapshot.
Settled ==
    /\ batch_task.pc = "idle"
    /\ analyze_task.pc = "idle"
    /\ conc.ok
    /\ \A i \in DOMAIN inbox : ~inbox[i].during

\* The records appended since the latest analysis took its snapshot.
CapturedSince == SubSeq(history, conc.start + 1, Len(history))

\* C8 as stated: after the analysis and the captures that arrived during it
\* have finished, every one of those records is in the buffer.
C8_AllConcurrentPresent ==
    Settled =>
        \A i \in DOMAIN CapturedSince :
            Count(CapturedSince, CapturedSince[i]) <= Count(production_data, CapturedSince[i])

\* C8 amended: a running analysis holds the window of the buffer as it was
\* at a handler boundary (no batch was part-way, no later record is in it),
\* and once the captures that arrived during it are served each of their
\* records has been appended exactly once, so that the buffer holds the last
\* min(k, Capacity) of the records appended so far.
C8_SnapshotAndCaptures ==
    /\ analyze_task.pc # "idle" =>
          /\ ~analyze_task.torn
          /\ conc.ok =>
                LET before == SubSeq(history, 1, conc.start)
                IN  analyze_task.current =
                        get_production_dataframe(LastN(before, Min(Len(before), Capacity)),
                                                 ResolveWindow(analyze_task.req))
    /\ Settled =>
          /\ Len(CapturedSince) = conc.arrived
          /\ production_data = LastN(history, Min(Len(history), Capacity))

\* C8 witness: two records arrived during an analysis and both are served.
C8_Witness ==
    /\ Settled
    /\ LoopFree
    /\ conc.arrived >= 2
    /\ Len(CapturedSince) = conc.arrived

\* A waiting capture is served.
ServeWaitingCaptureAt(i) ==
    /\ Handle(inbox[i].req, inbox[i].during)
    /\ inbox' = RemoveAt(inbox, i)

\* C9: while an analysis runs, a capture that has arrived (and fits the
\* model's bound on appends) can be served.
C9_CaptureNotBlocked ==
    \A i \in DOMAIN inbox :
        ( /\ analyze_task.pc # "idle"
          /\ inbox[i].req.op \in {"capture", "batch"}
          /\ Len(history) + RecordsOf(inbox[i].req) <= MaxAppends )
        => ENABLED ServeWaitingCaptureAt(i)

\* What the rows of a frame must be for the records data.
HoldsRecords(df, data) ==
    /\ FrameLen(df) = Len(data)
    /\ df.columns = UNION {DOMAIN data[i] : i \in DOMAIN data}
    /\ \A i \in DOMAIN data : \A key \in DOMAIN data[i] :
           key \in DOMAIN df.rows[i] /\ df.rows[i][key] = data[i][key]

\* C3: once an upload of a non-empty list has succeeded, and until the next
\* one is under way, the baseline is exactly the uploaded records with their
\* feature names, whatever was loaded before, and GET /reference says so.
C3_UploadReplacesBaseline ==
    (uploaded # <<>> /\ upload_task.pc = "idle") =>
        /\ reference_data # <<>>
        /\ HoldsRecords(reference_data[1], uploaded[1].data)
        /\ response.op = "get_reference" =>
              /\ response.loaded
              /\ response.samples = Len(uploaded[1].data)
              /\ response.features = UNION {DOMAIN uploaded[1].data[i] :
                                              i \in DOMAIN uploaded[1].data}

\* C3 witness: a baseline of one record has replaced the two records that
\* were loaded at the start, and GET /reference has answered.
C3_Witness ==
    /\ uploaded # <<>>
    /\ Len(uploaded[1].data) = 1
    /\ disk_meta # <<>>
    /\ response.op = "get_reference"
    /\ response.samples = 1

\* C4: an upload of an empty list answers 400 EmptyDataset and leaves the
\* baseline and its metadata, in memory and on disk, as they were.
C4_EmptyUploadRejected ==
    [][\A req \in ReferenceRequests :
          (req.data = <<>> /\ upload_reference_data(req)) =>
              /\ response' = Error400("upload", "EmptyDataset")
              /\ upload_task'.pc = "idle"
              /\ UNCHANGED <<reference_data, reference_metadata, disk_csv, disk_meta>>]_vars

\* C4 witness: the empty upload was refused while a baseline was loaded.
C4_Witness ==
    /\ response = Error400("upload", "EmptyDataset")
    /\ reference_data # <<>>
    /\ uploaded # <<>>

\* C5: an analyze call without a baseline answers 400 NoReferenceLoaded, one
\* with an empty production window answers 400 NoProductionData, and neither
\* writes a report or changes a metric, the count or the last analysis time.
C5_PreconditionFailuresHaveNoEffect ==
    [][\A req \in AnalyzeRequests :
          ( /\ analyze_drift(req)
            /\ \/ reference_data = <<>>
               \/ FrameLen(get_production_dataframe(production_data, ResolveWindow(req))) = 0 )
          => /\ response' = IF reference_data = <<>>
                            THEN Error400("analyze", "NoReferenceLoaded")
                            ELSE Error400("analyze", "NoProductionData")
             /\ analyze_task'.pc = "idle"
             /\ UNCHANGED <<reports, metric_vars, last_analysis_time>>]_vars

\* C5 witness: an analysis had succeeded, the buffer was cleared, and the
\* next analyze call was refused.
C5_Witness ==
    /\ response = Error400("analyze", "NoProductionData")
    /\ ANALYSIS_COUNT >= 1
    /\ reports # <<>>

\* C6: GET /reports lists as many artifacts as analyses succeeded, newest
\* first, each retrievable with content.
C6_ListsEveryAnalysis ==
    response.op = "list_reports" =>
        /\ response.count = ANALYSIS_COUNT
        /\ \A i \in 1..(response.count - 1) :
               response.reports[i].created >= response.reports[i + 1].created
        /\ \A i \in 1..response.count :
               /\ response.reports[i].filename \in DOMAIN reports
               /\ reports[response.reports[i].filename].content # <<>>

\* C7: a successful analysis adds a report under a new name, and no step
\* changes or removes a report that exists.
C7_ReportsAreNeverOverwritten ==
    [][ /\ \A n \in DOMAIN reports : n \in DOMAIN reports' /\ reports'[n] = reports[n]
        /\ ANALYSIS_COUNT' > ANALYSIS_COUNT => DOMAIN reports' # DOMAIN reports ]_vars

\* C10: GET /reference answers with a baseline and metadata of one upload,
\* the one before or the one after a replacement, and the baseline a running
\* analysis was given is the whole baseline the store holds.
C10_ReplacementIsAtomic ==
    /\ response.op = "get_reference" =>
          IF upload_task.pc = "idle"
          THEN response = ReferenceInfo(reference_data, reference_metadata)
          ELSE response \in
                  { ReferenceInfo(upload_task.old_data, upload_task.old_metadata),
                    ReferenceInfo(<<upload_task.df>>, <<upload_task.metadata>>) }
    /\ analyze_task.pc # "idle" =>
          /\ reference_data # <<>>
          /\ analyze_task.reference = reference_data[1]

\* C10 witness: a GET /reference waits while a replacement stands between
\* its two assignments, the new records in place and the old metadata still.
C10_Witness ==
    /\ upload_task.pc = "assign_metadata"
    /\ reference_data = <<upload_task.df>>
    /\ reference_metadata # <<upload_task.metadata>>
    /\ \E i \in DOMAIN inbox : inbox[i].req.op = "get_reference"

\* C12: when an analyze call that passed its two checks ends in an error, the
\* buffer, the baseline, the published gauges and counter, the last analysis
\* time and the reports are what they were when the call began.
C12_FailedAnalysisLeavesState ==
    [][ ( /\ analyze_task.pc # "idle"
          /\ analyze_task'.pc = "idle"
          /\ response'.status = 500 )
        => /\ production_data' = analyze_task.base
           /\ reference_data' = <<analyze_task.reference>>
           /\ metric_vars' = analyze_task.published
           /\ UNCHANGED <<last_analysis_time, reports>> ]_vars

\* C13: a restart that follows a successful upload loads the baseline that
\* upload stored, records, columns and metadata, and the buffer is empty.
C13_BaselineSurvivesRestart ==
    [][ ( /\ Restart
          /\ response.op = "upload"
          /\ response.status = 200 )
        => /\ reference_data' = reference_data
           /\ reference_metadata' = reference_metadata
           /\ ReferenceInfo(reference_data', reference_metadata')
                 = ReferenceInfo(reference_data, reference_metadata)
           /\ production_data' = <<>> ]_vars

\* C13 witness: the process was restarted right after upload "A" succeeded
\* while the buffer held a record; "A" is loaded and the buffer is empty.
C13_Witness ==
    /\ response.op = "restart"
    /\ response.after = "upload"
    /\ response.after_status = 200
    /\ response.held >= 1
    /\ reference_metadata # <<>>
    /\ reference_metadata[1].description = "A"
    /\ production_data = <<>>

\* C14: after a start at which the baseline's file or its metadata file could
\* not be parsed, the store holds no baseline.
C14_LoadFailureMeansNoBaseline ==
    ( /\ response.op = "restart"
      /\ \/ disk_csv = <<TruncatedFile>>
         \/ disk_meta = <<TruncatedJson>> )
    => /\ reference_data = <<>>
       /\ reference_metadata = <<>>

\* The feature names an upload resolves to: the declared names, else the
\* keys of the first record.
ResolvedFeatures(req) ==
    IF req.feature_names # {} THEN req.feature_names ELSE DOMAIN req.data[1]

\* C16: a successful upload answers with the sample count and the resolved
\* feature names, and the stored metadata and GET /reference report the same
\* names.
C16_ResolvedFeatureNames ==
    /\ (response.op = "upload" /\ response.status = 200) =>
          /\ response.samples = Len(uploaded[1].data)
          /\ response.features = ResolvedFeatures(uploaded[1])
          /\ reference_metadata[1].features = ResolvedFeatures(uploaded[1])
    /\ ( /\ response.op = "get_reference"
         /\ uploaded # <<>>
         /\ upload_task.pc = "idle" ) =>
          /\ response.features = ResolvedFeatures(uploaded[1])
          /\ response.metadata[1].features = ResolvedFeatures(uploaded[1])

\* The verdict a running analysis has computed, and what the library counted.
SavedVerdict == analyze_task.verdict[1]

LibraryResult ==
    DatasetDriftMetricResult(
        FrameSelect(analyze_task.reference, analyze_task.feature_cols),
        FrameSelect(analyze_task.current, analyze_task.feature_cols))

\* C15 as stated: an analysis whose request gave no window size has as many
\* current samples as the buffer held at the call.
C15_NoWindowAnalysesWholeBuffer ==
    (analyze_task.pc = "save" /\ ~analyze_task.req.has_window_size) =>
        SavedVerdict.current_samples = Len(analyze_task.base)

\* C15 amended: an analysis whose request gave no window size has
\* min(DefaultWindowSize, m) current samples for a buffer of m records; one
\* whose window size is null or 0 has m.
C15_DefaultWindowAnalysed ==
    analyze_task.pc = "save" =>
        /\ ~analyze_task.req.has_window_size =>
              SavedVerdict.current_samples =
                  Min(DefaultWindowSize, Len(analyze_task.base))
        /\ ( /\ analyze_task.req.has_window_size
             /\ analyze_task.req.window_size \in {Null, Some(0)} ) =>
              SavedVerdict.current_samples = Len(analyze_task.base)

\* C15 witness: no window size given, and the buffer is longer than the default.
C15_Witness ==
    /\ analyze_task.pc = "save"
    /\ ~analyze_task.req.has_window_size
    /\ Len(analyze_task.base) > DefaultWindowSize

\* The keys of the records in the window an analysis was given.
WindowKeys ==
    LET k == WindowSize(analyze_task.base, ResolveWindow(analyze_task.req))
        window == LastN(analyze_task.base, k)
    IN  UNION {DOMAIN window[i] : i \in 1..k}

\* C17: the analysis compares the columns of the baseline that are keys of
\* the window's records, prediction, timestamp and model_version apart; when
\* there is none it answers NoCommonFeatures, writes no report and changes no
\* metric.
C17_AlignedFeatures ==
    [][ AnalyzePerform =>
          LET aligned == (analyze_task.reference.columns \cap WindowKeys) \ MetadataCols
          IN  IF aligned = {}
              THEN /\ response' = Error500("analyze", "NoCommonFeatures")
                   /\ analyze_task'.pc = "idle"
                   /\ UNCHANGED <<reports, metric_vars, last_analysis_time>>
              ELSE /\ analyze_task'.pc = "save"
                   /\ analyze_task'.feature_cols = aligned
                   /\ analyze_task'.verdict[1].total_features = Cardinality(aligned) ]_vars

\* C17 witness: after an analysis that published a drift, one over a window
\* without a column of the baseline was refused.
C17_Witness ==
    /\ response = Error500("analyze", "NoCommonFeatures")
    /\ DRIFT_DETECTED = 1
    /\ reports # <<>>

\* C18: the drift share of a verdict, returned and published, is the number
\* of drifted columns over the number of aligned columns, flag or no flag.
C18_ShareIsDriftedOverAligned ==
    analyze_task.pc = "save" =>
        /\ SavedVerdict.drift_score[1] * LibraryResult.number_of_columns
              = LibraryResult.number_of_drifted_columns * SavedVerdict.drift_score[2]
        /\ DRIFT_SCORE = SavedVerdict.drift_score
        /\ SavedVerdict.drift_score[1] >= 0
        /\ SavedVerdict.drift_score[1] <= SavedVerdict.drift_score[2]

C20_OneEntryPerAlignedFeature ==
    analyze_task.pc = "save" =>
        /\ DOMAIN SavedVerdict.drift_scores = analyze_task.feature_cols
        /\ SavedVerdict.drifted_features \subseteq DOMAIN SavedVerdict.drift_scores
        /\ SavedVerdict.drifted_count = Cardinality(SavedVerdict.drifted_features)
        /\ SavedVerdict.total_features = Cardinality(analyze_task.feature_cols)

\* The step that ends an analysis with its verdict.
AnalysisSucceeds ==
    /\ analyze_task.pc = "save"
    /\ analyze_task'.pc = "idle"
    /\ response'.op = "analyze"
    /\ response'.status = 200

C22_CountsSuccessfulAnalyses ==
    /\ ANALYSIS_COUNT = 0
    /\ [][ IF AnalysisSucceeds
           THEN ANALYSIS_COUNT' = ANALYSIS_COUNT + 1
           ELSE IF response'.op = "restart"
                THEN ANALYSIS_COUNT' = 0
                ELSE ANALYSIS_COUNT' = ANALYSIS_COUNT ]_vars

\* C22 witness: one analysis succeeded, a later one failed at the report,
\* and the count is 1.
C22_Witness ==
    /\ ANALYSIS_COUNT = 1
    /\ response = Error500("analyze", "PersistenceError")
    /\ uploaded # <<>>

\* C23: every record of the buffer has a timestamp.
C23_EveryRecordHasTimestamp ==
    \A i \in DOMAIN production_data :
        /\ "timestamp" \in DOMAIN production_data[i]
        /\ production_data[i]["timestamp"] # NoneVal

\* C24: while no upload is part-way, a restart would load the baseline that
\* is in memory, and the metadata counts the records of that baseline.
C24_MemoryAgreesWithDisk ==
    upload_task.pc = "idle" =>
        /\ LoadReference(disk_csv, disk_meta)[1] = reference_data
        /\ (reference_data # <<>> /\ reference_metadata # <<>>) =>
              reference_metadata[1].samples = FrameLen(reference_data[1])

\* C25: POST /predict while no model is loaded answers 503 "Model not
\* loaded" and counts one model_not_loaded error and no other error.
C25_NotLoadedAnswers503 ==
    [][ (predict /\ model_manager.model = <<>>) =>
          /\ api_response' = [op |-> "predict", status |-> 503,
                              detail |-> "Model not loaded"]
          /\ PREDICTION_ERRORS' = Inc(PREDICTION_ERRORS, "model_not_loaded") ]_vars

\* C26: the simulator's total is the sum of its successes and failures, both
\* are the number of calls of send_prediction, and the success rate is the
\* successes over the calls.
C26_TotalIsSuccessPlusFailed ==
    simulator # <<>> =>
        LET stats == simulator[1].stats
        IN  /\ stats.total = stats.success + stats.failed
            /\ stats.total = sim_calls
            /\ SuccessRate(stats) = <<stats.success, sim_calls>>

====
